---------------------------- MODULE Spec2Model ----------------------------
(***************************************************************************)
(* Model of the two opcode-frequency tools of the repository:              *)
(*   opcode-freq-all.py  (many files, aggregate table / JSON report)       *)
(*   opcode-freq.py      (one file, table report)                          *)
(* A text is a sequence of characters, a character is a one-character      *)
(* string; the two multi-character tokens "<FF>" and "<U+FFFD>" stand for  *)
(* the byte 0xFF (never valid UTF-8) and the replacement character.        *)
(* An opcode name and a file path are texts; a Counter / dict is a         *)
(* function whose DOMAIN is its key set.                                   *)
(***************************************************************************)
EXTENDS Integers, Sequences, FiniteSets, TLC

VARIABLES
    tool,            \* which program runs: "all", "single" or "table"
    show_asm,        \* --show-asm given
    output_json,     \* --json given (opcode-freq-all.py only)
    files,           \* find_files(patterns): sorted list of distinct paths
    idx,             \* position of the for loop in files (1-based)
    pc,              \* position of main
    result,          \* last subprocess.run result of compile_and_extract
    success,         \* first component returned by compile_and_extract
    opcode_counts,   \* Counter returned by compile_and_extract
    assembly,        \* opcode-freq.py: text returned by compile_and_extract
    aggregate_counter,
    per_file,
    assembly_parts,
    file_count,
    failed,
    stdout,          \* sequence of the items printed to sys.stdout
    stderr,          \* sequence of the items printed to sys.stderr
    exit_code,       \* -1 while running, then the process exit status
    invocations,     \* history: every subprocess.run of the compiler, in order
    extracted_from,  \* history: path -> decoded text its counts were taken from
    merges           \* history: the path of every aggregate_counter.update

vars == << tool, show_asm, output_json, files, idx, pc, result, success,
           opcode_counts, assembly, aggregate_counter, per_file,
           assembly_parts, file_count, failed, stdout, stderr, exit_code,
           invocations, extracted_from, merges >>

---------------------------------------------------------------------------
(* Bounds of the model. *)

MaxTextLen == 4      \* length of the enumerated compiler outputs
MaxFiles == 2        \* number of input files of a run of opcode-freq-all.py
MaxCount == 2        \* largest count of the enumerated count mappings

---------------------------------------------------------------------------
(* Characters. *)

\* The characters of the model in code point order (Python compares str by
\* code point).
CharOrder ==
    << "\t", "\n", "\r", " ", ".", "/",
       "0", "1", "2", "3", "4", "5", "6", "7", "8", "9", ":", "=",
       "A", "B", "C", "D", "E", "F", "G", "H", "I", "J", "K", "L", "M",
       "N", "O", "P", "Q", "R", "S", "T", "U", "V", "W", "X", "Y", "Z",
       "_",
       "a", "b", "c", "d", "e", "f", "g", "h", "i", "j", "k", "l", "m",
       "n", "o", "p", "q", "r", "s", "t", "u", "v", "w", "x", "y", "z",
       "<FF>", "<U+FFFD>" >>

Ord(c) == CHOOSE i \in 1..Len(CharOrder) : CharOrder[i] = c

Upper == {CharOrder[i] : i \in Ord("A")..Ord("Z")}
Lower == {CharOrder[i] : i \in Ord("a")..Ord("z")}
Digit == {CharOrder[i] : i \in Ord("0")..Ord("9")}

\* \s of a str pattern, restricted to the characters of the model that can
\* occur inside a line.
IsSpace(c) == c \in {" ", "\t", "\n", "\r"}

\* \w of a str pattern: alphanumeric or underscore.
IsWord(c) == c \in Upper \cup Lower \cup Digit \cup {"_"}

\* [A-Z_0-9]
IsOpcodeChar(c) == c \in Upper \cup Digit \cup {"_"}

\* bytes.decode('utf-8', errors='replace') on ASCII bytes and the invalid
\* byte 0xFF: each 0xFF becomes one U+FFFD.
Decode(bytes) ==
    [i \in 1..Len(bytes) |-> IF bytes[i] = "<FF>" THEN "<U+FFFD>" ELSE bytes[i]]

\* str.splitlines(): "\n", "\r" and "\r\n" end a line, the breaks are
\* dropped, and no empty last line is produced.
RECURSIVE SplitFrom(_, _, _, _)
SplitFrom(s, i, cur, acc) ==
    IF i > Len(s)
    THEN IF cur = << >> THEN acc ELSE Append(acc, cur)
    ELSE IF s[i] = "\r" /\ i < Len(s) /\ s[i + 1] = "\n"
         THEN SplitFrom(s, i + 2, << >>, Append(acc, cur))
         ELSE IF s[i] \in {"\n", "\r"}
              THEN SplitFrom(s, i + 1, << >>, Append(acc, cur))
              ELSE SplitFrom(s, i + 1, Append(cur, s[i]), acc)

SplitLines(s) == SplitFrom(s, 1, << >>, << >>)

IsDigit(c) == c \in Digit

\* The length a greedy repetition settles on: the largest of the lengths it
\* can match.
LongestRun(ok) == CHOOSE n \in ok : \A m \in ok : m <= n

\* \d+ / \d* from position i of s on: the number of digits matched greedily.
DigitRun(s, i) ==
    LongestRun({n \in 0..(IF i > Len(s) THEN 0 ELSE Len(s) - i + 1) :
                   \A k \in i..(i + n - 1) : IsDigit(s[k])})

\* \s* from position i of s on.
SpaceRun(s, i) ==
    LongestRun({n \in 0..(IF i > Len(s) THEN 0 ELSE Len(s) - i + 1) :
                   \A k \in i..(i + n - 1) : IsSpace(s[k])})

\* [A-Z_0-9]* from position i of s on.
OpcodeCharRun(s, i) ==
    LongestRun({n \in 0..(IF i > Len(s) THEN 0 ELSE Len(s) - i + 1) :
                   \A k \in i..(i + n - 1) : IsOpcodeChar(s[k])})

Drop(s, n) == SubSeq(s, n + 1, Len(s))

---------------------------------------------------------------------------
(* compile_and_extract: the text part. *)

\* A variant of LabelMatchLen for the pattern ^L\d+:\s+, which needs a blank
\* after the colon.
LabelMatchLenNeedsBlank(line) ==
    IF Len(line) >= 1 /\ line[1] = "L"
    THEN LET d == DigitRun(line, 2)
         IN  IF /\ d >= 1 /\ Len(line) >= d + 2 /\ line[d + 2] = ":"
                /\ SpaceRun(line, d + 3) >= 1
             THEN d + 2 + SpaceRun(line, d + 3)
             ELSE 0
    ELSE 0

\* Length of the match of ^L\d+:\s* at the start of the line, 0 if none.
LabelMatchLen(line) ==
    IF Len(line) >= 1 /\ line[1] = "L"
    THEN LET d == DigitRun(line, 2)
         IN  IF d >= 1 /\ Len(line) >= d + 2 /\ line[d + 2] = ":"
             THEN d + 2 + SpaceRun(line, d + 3)
             ELSE 0
    ELSE 0

\* A variant of StripLabel that also drops the blanks in front of a line
\* without a label.
StripLabelAndIndent(line) ==
    IF LabelMatchLen(line) > 0 THEN Drop(line, LabelMatchLen(line))
    ELSE Drop(line, SpaceRun(line, 1))

\* label_pattern.sub('', line): the pattern is anchored, so at most the one
\* match at the start of the line is removed.
StripLabel(line) == Drop(line, LabelMatchLen(line))

\* \b at offset j of line (between line[j] and line[j+1]).
WordBoundaryAt(line, j) ==
    LET before == j >= 1 /\ IsWord(line[j])
        after  == j < Len(line) /\ IsWord(line[j + 1])
    IN  before # after

\* A variant of OpcodeMatchLen for the pattern without \b: the longest run.
OpcodeMatchLenNoBoundary(line) ==
    IF Len(line) >= 1 /\ line[1] \in Upper
    THEN 1 + OpcodeCharRun(line, 2)
    ELSE 0

\* Length of group 1 of re.match(r'^([A-Z][A-Z_0-9]*)\b', line), 0 if the
\* match fails: the star is greedy and backtracks to the longest length at
\* which \b holds.
OpcodeMatchLen(line) ==
    IF Len(line) >= 1 /\ line[1] \in Upper
    THEN LET longest == 1 + OpcodeCharRun(line, 2)
             ok == {j \in 1..longest : WordBoundaryAt(line, j)}
         IN  IF ok = {} THEN 0 ELSE CHOOSE j \in ok : \A k \in ok : k <= j
    ELSE 0

EmptyCounter == [k \in {} |-> 0]

\* dict.get(k, 0)
Get(d, k) == IF k \in DOMAIN d THEN d[k] ELSE 0

\* opcode_counts[k] += 1 on a Counter
CounterInc(c, k) ==
    [x \in DOMAIN c \cup {k} |-> Get(c, x) + (IF x = k THEN 1 ELSE 0)]

\* One iteration of the loop over output.splitlines().
ExtractLine(counts, rawline) ==
    LET line == StripLabel(rawline)
        n == OpcodeMatchLen(line)
    IN  IF line = << >> THEN counts
        ELSE IF n > 0 THEN CounterInc(counts, SubSeq(line, 1, n))
        ELSE counts

RECURSIVE ExtractLines(_, _, _)
ExtractLines(lines, i, counts) ==
    IF i > Len(lines) THEN counts
    ELSE ExtractLines(lines, i + 1, ExtractLine(counts, lines[i]))

\* The Counter built from the decoded output.
ExtractOpcodes(output) == ExtractLines(SplitLines(output), 1, EmptyCounter)

---------------------------------------------------------------------------
(* Counters and the ranking of the table. *)

\* A variant of CounterUpdate that behaves like dict.update: the value of the
\* other mapping replaces the one already there.
CounterUpdateOverwrite(agg, other) ==
    [x \in DOMAIN agg \cup DOMAIN other |->
        IF x \in DOMAIN other THEN other[x] ELSE agg[x]]

\* Counter.update(other): key-wise addition.
CounterUpdate(agg, other) ==
    [x \in DOMAIN agg \cup DOMAIN other |-> Get(agg, x) + Get(other, x)]

\* sum(counter.values())
RECURSIVE SumOver(_, _)
SumOver(c, keys) ==
    IF keys = {} THEN 0
    ELSE LET k == CHOOSE x \in keys : TRUE
         IN  c[k] + SumOver(c, keys \ {k})

SumValues(c) == SumOver(c, DOMAIN c)

\* a < b on two str: the first differing code point decides, a proper prefix
\* is smaller.
LexLess(a, b) ==
    \E i \in 1..(Len(b)) :
        /\ \A k \in 1..(i - 1) : k <= Len(a) /\ a[k] = b[k]
        /\ \/ i = Len(a) + 1
           \/ i <= Len(a) /\ Ord(a[i]) < Ord(b[i])

\* A variant of SortKeyLess whose key is (x[1], x[0]): ascending count.
SortKeyLessAscending(x, y) ==
    \/ x.count < y.count
    \/ x.count = y.count /\ LexLess(x.opcode, y.opcode)

\* key(x) < key(y) for key = lambda x: (-x[1], x[0]) on items (opcode, count).
SortKeyLess(x, y) ==
    \/ (0 - x.count) < (0 - y.count)
    \/ x.count = y.count /\ LexLess(x.opcode, y.opcode)

\* counter.items()
Items(counter) == {[opcode |-> k, count |-> counter[k]] : k \in DOMAIN counter}

\* sorted(items, key=...): the keys of distinct items differ, so the result
\* is the only ascending arrangement.
RECURSIVE SortedSeq(_)
SortedSeq(items) ==
    IF items = {} THEN << >>
    ELSE LET first == CHOOSE x \in items :
                          \A y \in items \ {x} : SortKeyLess(x, y)
         IN  << first >> \o SortedSeq(items \ {first})

\* f"{pct:>6.1f}" in tenths of a percent, for pct = count / total * 100
\* (0.0 when total is not positive); ties round to even. The float
\* arithmetic gives this value for every total below 80.
PctTenths(count, total) ==
    IF total > 0
    THEN LET q == (1000 * count) \div total
             r == (1000 * count) % total
         IN  IF 2 * r > total \/ (2 * r = total /\ q % 2 = 1) THEN q + 1 ELSE q
    ELSE 0

\* The lines of the for loop of print_frequency_table.
TableRows(counter, total) ==
    LET sorted_items == SortedSeq(Items(counter))
    IN  [i \in 1..Len(sorted_items) |->
            [line |-> "row", opcode |-> sorted_items[i].opcode,
             count |-> sorted_items[i].count,
             pct |-> PctTenths(sorted_items[i].count, total)]]

\* print_frequency_table of opcode-freq-all.py: the lines it prints.
PrintFrequencyTableAll(counter, total, fcount, title) ==
    << [line |-> "title", text |-> title],
       [line |-> "rule", width |-> 42],
       [line |-> "analyzed", file_count |-> fcount],
       [line |-> "blank"] >>
    \o TableRows(counter, total)
    \o << [line |-> "blank"], [line |-> "total", total |-> total] >>

\* print_frequency_table of opcode-freq.py: the lines it prints.
PrintFrequencyTableSingle(counter, total, title) ==
    << [line |-> "title", text |-> title],
       [line |-> "rule", width |-> 40],
       [line |-> "blank"] >>
    \o TableRows(counter, total)
    \o << [line |-> "blank"], [line |-> "total", total |-> total] >>

\* str.endswith(('.luau', '.lua'))
EndsWith(s, suffix) ==
    Len(s) >= Len(suffix) /\ SubSeq(s, Len(s) - Len(suffix) + 1, Len(s)) = suffix

IsLuaName(path) ==
    \/ EndsWith(path, << ".", "l", "u", "a", "u" >>)
    \/ EndsWith(path, << ".", "l", "u", "a" >>)

---------------------------------------------------------------------------
(* The inputs of the model. *)

\* The three-line scenario: the second line is indented.
TextScenario ==
    << "L", "0", ":", " ", "L", "O", "A", "D", "K", " ", "R", "0", " ",
       "K", "0", "\n", " ", " ", " ", " ", "A", "D", "D", " ", "R", "1",
       " ", "R", "0", " ", "R", "0", "\n", "L", "1", ":", " ", "R", "E",
       "T", "U", "R", "N", " ", "R", "1", " ", "1" >>

\* The same three instructions with no indentation.
TextFlush ==
    << "L", "0", ":", " ", "L", "O", "A", "D", "K", " ", "R", "0", " ",
       "K", "0", "\n", "A", "D", "D", " ", "R", "1", " ", "R", "0", " ",
       "R", "0", "\n", "L", "1", ":", " ", "R", "E", "T", "U", "R", "N",
       " ", "R", "1", " ", "1" >>

\* A labelled line with several blanks after the label.
TextLabelled ==
    << "L", "4", "2", ":", " ", " ", " ", "L", "O", "A", "D", "K", " ",
       "R", "0", " ", "K", "3" >>

\* A line that carries two label prefixes.
TextTwoLabels ==
    << "L", "1", ":", " ", "L", "2", ":", " ", "A", "D", "D" >>

\* An uppercase run followed by a lowercase letter.
TextLowerTail ==
    << "A", "D", "D", "x" >>

\* A capitalised word.
TextHello ==
    << "H", "e", "l", "l", "o" >>

\* The three kinds of line break, a tab after a label, an invalid byte.
TextBreaks ==
    << "M", "O", "V", "E", "\r", "\n", "L", "1", ":", "\t", "M", "O", "V",
       "E", "\r", "A", "D", "D", "<FF>", "\n" >>

\* A file with counts {MOVE:3, ADD:1}.
TextMoveAdd ==
    << "M", "O", "V", "E", "\n", "M", "O", "V", "E", "\n", "M", "O", "V",
       "E", "\n", "A", "D", "D", "\n" >>

\* A file with counts {MOVE:2}.
TextMoveMove ==
    << "M", "O", "V", "E", "\n", "M", "O", "V", "E", "\n" >>

\* A file that compiles to no instruction line.
TextNoOpcode ==
    << " ", " ", " ", " ", "1", ":", " ", "x", "\n" >>

ScenarioTexts ==
    { TextScenario, TextFlush, TextLabelled, TextTwoLabels, TextLowerTail,
      TextHello, TextBreaks, TextMoveAdd, TextMoveMove, TextNoOpcode }

\* The bytes of the enumerated compiler outputs.
EnumChars == {"L", "A", "1", ":", " ", "x", "_", "\n", "<FF>"}

EnumTexts == UNION {[1..n -> EnumChars] : n \in 0..MaxTextLen}

\* What one run of ./luau-compile --text can give back (subprocess.run).
ResultOf(rc, out) ==
    [returncode |-> rc, stdout |-> out,
     stderr |-> IF rc = 0 THEN << >> ELSE << "e", "r", "r" >>]

\* opcode-freq.py: every enumerated and every scenario text on success, and
\* on failure an output that must be ignored.
SingleResults ==
    {ResultOf(0, t) : t \in EnumTexts \cup ScenarioTexts}
    \cup {ResultOf(1, t) : t \in {<< >>, TextMoveMove}}

\* opcode-freq-all.py: a few outputs per invocation.
AllOutputs == {<< >>, TextMoveAdd, TextMoveMove, TextNoOpcode}

AllResults ==
    {ResultOf(0, t) : t \in AllOutputs}
    \cup {ResultOf(1, t) : t \in {<< >>, TextMoveMove}}

PathA == << "a", ".", "l", "u", "a" >>
PathB == << "b", ".", "l", "u", "a" >>
PathC == << "b", ".", "l", "u", "a", "u" >>
PathD == << "b", "/", "c", ".", "l", "u", "a" >>
PathTxt == << "a", ".", "t", "x", "t" >>

PathPool == {PathA, PathB, PathC, PathD}

\* sorted(files) of find_files, for a set of paths.
RECURSIVE SortedPaths(_)
SortedPaths(S) ==
    IF S = {} THEN << >>
    ELSE LET first == CHOOSE x \in S : \A y \in S \ {x} : LexLess(x, y)
         IN  << first >> \o SortedPaths(S \ {first})

\* The names of the enumerated count mappings.
NameADD == << "A", "D", "D" >>
NameADDK == << "A", "D", "D", "K" >>
NameA_1 == << "A", "_", "1" >>
NameMOVE == << "M", "O", "V", "E" >>

NamePool == {NameADD, NameADDK, NameA_1, NameMOVE}

CountMappings == UNION {[S -> 1..MaxCount] : S \in SUBSET NamePool}

Text(line) == [line |-> "text", text |-> line]

\* One subprocess.run(["./luau-compile", "--text", filepath]) as recorded in
\* invocations: the file, the exit status, and the function that made the call.
Invocation(filepath, rc, site) ==
    [filepath |-> filepath, returncode |-> rc, site |-> site]

---------------------------------------------------------------------------
(* Initial states: the state of main once the arguments are parsed. *)

NoResult == [returncode |-> 0 - 1, stdout |-> << >>, stderr |-> << >>]

InitLocals ==
    /\ idx = 1
    /\ pc = "start"
    /\ success = FALSE
    /\ assembly = << >>
    /\ aggregate_counter = EmptyCounter
    /\ per_file = EmptyCounter
    /\ assembly_parts = << >>
    /\ file_count = 0
    /\ failed = 0
    /\ stdout = << >>
    /\ stderr = << >>
    /\ exit_code = 0 - 1
    /\ invocations = << >>
    /\ extracted_from = EmptyCounter
    /\ merges = << >>

\* opcode-freq-all.py: at most one of the two flags is recognised; files is
\* what find_files returned.
InitAll ==
    /\ tool = "all"
    /\ show_asm \in BOOLEAN
    /\ output_json \in IF show_asm THEN {FALSE} ELSE BOOLEAN
    /\ files \in {SortedPaths(S) :
                     S \in {P \in SUBSET PathPool : Cardinality(P) <= MaxFiles}}
    /\ result = NoResult
    /\ opcode_counts = EmptyCounter
    /\ InitLocals

\* opcode-freq.py: files holds the one path given; result is what the
\* compiler will give back for it.
InitSingle ==
    /\ tool = "single"
    /\ show_asm \in BOOLEAN
    /\ output_json = FALSE
    /\ files \in {<< PathA >>, << PathTxt >>}
    /\ result \in SingleResults
    /\ opcode_counts = EmptyCounter
    /\ InitLocals

\* print_frequency_table alone, on an enumerated count mapping.
InitTable ==
    /\ tool = "table"
    /\ show_asm = FALSE
    /\ output_json = FALSE
    /\ files = << >>
    /\ result = NoResult
    /\ opcode_counts \in CountMappings
    /\ InitLocals

---------------------------------------------------------------------------
(* opcode-freq.py *)

\* compile_and_extract of opcode-freq.py on the compiler's result r.
CompileAndExtractSingle(r) ==
    IF r.returncode # 0
    THEN [assembly |-> << >>, counts |-> EmptyCounter]
    ELSE [assembly |-> Decode(r.stdout),
          counts |-> ExtractOpcodes(Decode(r.stdout))]

\* The extension warning and the call of compile_and_extract.
SingleCompileAndExtract ==
    /\ tool = "single" /\ pc = "start"
    /\ LET filepath == files[1]
           ret == CompileAndExtractSingle(result)
       IN  /\ stdout' = IF IsLuaName(filepath) THEN stdout
                        ELSE Append(stdout, [line |-> "not_lua_warning",
                                             filepath |-> filepath])
           /\ invocations' = Append(invocations,
                  Invocation(filepath, result.returncode, "compile_and_extract"))
           /\ stderr' = IF result.returncode # 0
                        THEN Append(stderr, [line |-> "error_compiling",
                                             filepath |-> filepath,
                                             detail |-> Decode(result.stderr)])
                        ELSE stderr
           /\ assembly' = ret.assembly
           /\ opcode_counts' = ret.counts
           /\ extracted_from' = IF result.returncode = 0
                                THEN (filepath :> Decode(result.stdout))
                                ELSE extracted_from
    /\ pc' = "check"
    /\ UNCHANGED << tool, show_asm, output_json, files, idx, result, success,
                    aggregate_counter, per_file, assembly_parts, file_count,
                    failed, exit_code, merges >>

\* if not opcode_counts: ... sys.exit(1)
SingleNoOpcodes ==
    /\ tool = "single" /\ pc = "check"
    /\ DOMAIN opcode_counts = {}
    /\ stdout' = Append(stdout,
                        Text("No opcodes found (compilation may have failed)"))
    /\ exit_code' = 1
    /\ pc' = "done"
    /\ UNCHANGED << tool, show_asm, output_json, files, idx, result, success,
                    opcode_counts, assembly, aggregate_counter, per_file,
                    assembly_parts, file_count, failed, stderr, invocations,
                    extracted_from, merges >>

SingleReportShowAsm ==
    /\ tool = "single" /\ pc = "check"
    /\ DOMAIN opcode_counts # {}
    /\ show_asm
    /\ stdout' = stdout
                 \o << Text("=== FULL BYTECODE DISASSEMBLY ==="),
                       [line |-> "asm", text |-> assembly],
                       [line |-> "blank"] >>
                 \o PrintFrequencyTableSingle(opcode_counts,
                        SumValues(opcode_counts), "OPCODE FREQUENCY TABLE")
    /\ exit_code' = 0
    /\ pc' = "done"
    /\ UNCHANGED << tool, show_asm, output_json, files, idx, result, success,
                    opcode_counts, assembly, aggregate_counter, per_file,
                    assembly_parts, file_count, failed, stderr, invocations,
                    extracted_from, merges >>

SingleReportTable ==
    /\ tool = "single" /\ pc = "check"
    /\ DOMAIN opcode_counts # {}
    /\ ~show_asm
    /\ stdout' = stdout
                 \o PrintFrequencyTableSingle(opcode_counts,
                        SumValues(opcode_counts), "OPCODE FREQUENCY TABLE")
    /\ exit_code' = 0
    /\ pc' = "done"
    /\ UNCHANGED << tool, show_asm, output_json, files, idx, result, success,
                    opcode_counts, assembly, aggregate_counter, per_file,
                    assembly_parts, file_count, failed, stderr, invocations,
                    extracted_from, merges >>

NextSingle ==
    \/ SingleCompileAndExtract
    \/ SingleNoOpcodes
    \/ SingleReportShowAsm
    \/ SingleReportTable

SpecSingle == InitSingle /\ [][NextSingle]_vars

---------------------------------------------------------------------------
(* opcode-freq-all.py *)

\* A variant of CompileAndExtractAll that reports success only when some
\* opcode was found.
CompileAndExtractAllByCount(r) ==
    IF r.returncode # 0
    THEN [success |-> FALSE, counts |-> EmptyCounter]
    ELSE [success |-> DOMAIN ExtractOpcodes(Decode(r.stdout)) # {},
          counts |-> ExtractOpcodes(Decode(r.stdout))]

\* compile_and_extract of opcode-freq-all.py on the compiler's result r.
CompileAndExtractAll(r) ==
    IF r.returncode # 0
    THEN [success |-> FALSE, counts |-> EmptyCounter]
    ELSE [success |-> TRUE, counts |-> ExtractOpcodes(Decode(r.stdout))]

\* f"=== {filepath} ===\n"
Delimiter(filepath) ==
    << "=", "=", "=", " " >> \o filepath \o << " ", "=", "=", "=", "\n" >>

\* "".join(parts)
RECURSIVE Join(_)
Join(parts) == IF parts = << >> THEN << >> ELSE Head(parts) \o Join(Tail(parts))

\* if not files: ... sys.exit(1)
AllNoFiles ==
    /\ tool = "all" /\ pc = "start"
    /\ files = << >>
    /\ stdout' = Append(stdout,
           Text("No .luau/.lua files found matching the given patterns."))
    /\ exit_code' = 1
    /\ pc' = "done"
    /\ UNCHANGED << tool, show_asm, output_json, files, idx, result, success,
                    opcode_counts, assembly, aggregate_counter, per_file,
                    assembly_parts, file_count, failed, stderr, invocations,
                    extracted_from, merges >>

\* The accumulators are set up and the loop over files is entered.
AllEnterLoop ==
    /\ tool = "all" /\ pc = "start"
    /\ files # << >>
    /\ aggregate_counter' = EmptyCounter
    /\ per_file' = EmptyCounter
    /\ assembly_parts' = << >>
    /\ file_count' = 0
    /\ failed' = 0
    /\ idx' = 1
    /\ pc' = "call"
    /\ UNCHANGED << tool, show_asm, output_json, files, result, success,
                    opcode_counts, assembly, stdout, stderr, exit_code,
                    invocations, extracted_from, merges >>

\* success, opcode_counts = compile_and_extract(filepath): the compiler runs
\* on files[idx] and gives back any of its possible results.
AllCompileAndExtract ==
    /\ tool = "all" /\ pc = "call"
    /\ idx <= Len(files)
    /\ \E r \in AllResults :
          LET filepath == files[idx]
              ret == CompileAndExtractAll(r)
          IN  /\ result' = r
              /\ invocations' = Append(invocations,
                     Invocation(filepath, r.returncode, "compile_and_extract"))
              /\ success' = ret.success
              /\ opcode_counts' = ret.counts
              /\ extracted_from' =
                     IF ret.success
                     THEN [f \in DOMAIN extracted_from \cup {filepath} |->
                              IF f = filepath THEN Decode(r.stdout)
                              ELSE extracted_from[f]]
                     ELSE extracted_from
    /\ pc' = "body"
    /\ UNCHANGED << tool, show_asm, output_json, files, idx, assembly,
                    aggregate_counter, per_file, assembly_parts, file_count,
                    failed, stdout, stderr, exit_code, merges >>

\* The position after one pass of the loop body.
AfterPass == IF idx + 1 > Len(files) THEN "after" ELSE "call"

\* The if success: branch. It runs the compiler on the same file once more
\* and keeps whatever that run writes to its standard output.
AllLoopSuccess ==
    /\ tool = "all" /\ pc = "body"
    /\ success
    /\ LET filepath == files[idx]
       IN  /\ file_count' = file_count + 1
           /\ aggregate_counter' = CounterUpdate(aggregate_counter, opcode_counts)
           /\ merges' = Append(merges, filepath)
           /\ per_file' = [f \in DOMAIN per_file \cup {filepath} |->
                              IF f = filepath THEN opcode_counts ELSE per_file[f]]
           /\ \E asm_result \in AllResults :
                 /\ invocations' = Append(invocations,
                        Invocation(filepath, asm_result.returncode, "main"))
                 /\ assembly_parts' = assembly_parts
                        \o << Delimiter(filepath), Decode(asm_result.stdout) >>
    /\ idx' = idx + 1
    /\ pc' = AfterPass
    /\ UNCHANGED << tool, show_asm, output_json, files, result, success,
                    opcode_counts, assembly, failed, stdout, stderr, exit_code,
                    extracted_from >>

\* The else: branch.
AllLoopFailure ==
    /\ tool = "all" /\ pc = "body"
    /\ ~success
    /\ failed' = failed + 1
    /\ idx' = idx + 1
    /\ pc' = AfterPass
    /\ UNCHANGED << tool, show_asm, output_json, files, result, success,
                    opcode_counts, assembly, aggregate_counter, per_file,
                    assembly_parts, file_count, stdout, stderr, exit_code,
                    invocations, extracted_from, merges >>

\* A variant of AllNoneCompiled that tests the number of opcodes found
\* instead of the number of files compiled.
AllNoneCompiledByCount ==
    /\ tool = "all" /\ pc = "after"
    /\ SumValues(aggregate_counter) = 0
    /\ stdout' = Append(stdout, Text("No files compiled successfully."))
    /\ exit_code' = 1
    /\ pc' = "done"
    /\ UNCHANGED << tool, show_asm, output_json, files, idx, result, success,
                    opcode_counts, assembly, aggregate_counter, per_file,
                    assembly_parts, file_count, failed, stderr, invocations,
                    extracted_from, merges >>

\* if file_count == 0: ... sys.exit(1)
AllNoneCompiled ==
    /\ tool = "all" /\ pc = "after"
    /\ file_count = 0
    /\ stdout' = Append(stdout, Text("No files compiled successfully."))
    /\ exit_code' = 1
    /\ pc' = "done"
    /\ UNCHANGED << tool, show_asm, output_json, files, idx, result, success,
                    opcode_counts, assembly, aggregate_counter, per_file,
                    assembly_parts, file_count, failed, stderr, invocations,
                    extracted_from, merges >>

\* print_json_output: the object it dumps.
PrintJsonOutput(aggregate, perfile, fcount) ==
    << [line |-> "json",
        file_count |-> fcount,
        aggregate |-> aggregate,
        total_opcodes |-> SumValues(aggregate),
        per_file |-> perfile] >>

AllReportJson ==
    /\ tool = "all" /\ pc = "after"
    /\ file_count # 0
    /\ output_json
    /\ stdout' = stdout \o PrintJsonOutput(aggregate_counter, per_file, file_count)
    /\ pc' = "warn"
    /\ UNCHANGED << tool, show_asm, output_json, files, idx, result, success,
                    opcode_counts, assembly, aggregate_counter, per_file,
                    assembly_parts, file_count, failed, stderr, exit_code,
                    invocations, extracted_from, merges >>

AllReportShowAsm ==
    /\ tool = "all" /\ pc = "after"
    /\ file_count # 0
    /\ ~output_json /\ show_asm
    /\ stdout' = stdout
           \o << Text("=== FULL BYTECODE DISASSEMBLY (all files) ==="),
                 [line |-> "asm", text |-> Join(assembly_parts)],
                 [line |-> "blank"] >>
           \o PrintFrequencyTableAll(aggregate_counter,
                  SumValues(aggregate_counter), file_count,
                  "=== AGGREGATE OPCODE FREQUENCY TABLE ===")
    /\ pc' = "warn"
    /\ UNCHANGED << tool, show_asm, output_json, files, idx, result, success,
                    opcode_counts, assembly, aggregate_counter, per_file,
                    assembly_parts, file_count, failed, stderr, exit_code,
                    invocations, extracted_from, merges >>

AllReportTable ==
    /\ tool = "all" /\ pc = "after"
    /\ file_count # 0
    /\ ~output_json /\ ~show_asm
    /\ stdout' = stdout
           \o PrintFrequencyTableAll(aggregate_counter,
                  SumValues(aggregate_counter), file_count,
                  "OPCODE FREQUENCY TABLE (AGGREGATE)")
    /\ pc' = "warn"
    /\ UNCHANGED << tool, show_asm, output_json, files, idx, result, success,
                    opcode_counts, assembly, aggregate_counter, per_file,
                    assembly_parts, file_count, failed, stderr, exit_code,
                    invocations, extracted_from, merges >>

\* A variant of AllWarn that treats a failed file as an error of the run.
AllWarnFatal ==
    /\ tool = "all" /\ pc = "warn"
    /\ failed > 0
    /\ stderr' = Append(stderr, [line |-> "warning", failed |-> failed])
    /\ exit_code' = 1
    /\ pc' = "done"
    /\ UNCHANGED << tool, show_asm, output_json, files, idx, result, success,
                    opcode_counts, assembly, aggregate_counter, per_file,
                    assembly_parts, file_count, failed, stdout, invocations,
                    extracted_from, merges >>

\* if failed > 0: print(..., file=sys.stderr); main returns.
AllWarn ==
    /\ tool = "all" /\ pc = "warn"
    /\ failed > 0
    /\ stderr' = Append(stderr, [line |-> "warning", failed |-> failed])
    /\ exit_code' = 0
    /\ pc' = "done"
    /\ UNCHANGED << tool, show_asm, output_json, files, idx, result, success,
                    opcode_counts, assembly, aggregate_counter, per_file,
                    assembly_parts, file_count, failed, stdout, invocations,
                    extracted_from, merges >>

\* No file failed: main returns.
AllReturn ==
    /\ tool = "all" /\ pc = "warn"
    /\ failed = 0
    /\ exit_code' = 0
    /\ pc' = "done"
    /\ UNCHANGED << tool, show_asm, output_json, files, idx, result, success,
                    opcode_counts, assembly, aggregate_counter, per_file,
                    assembly_parts, file_count, failed, stdout, stderr,
                    invocations, extracted_from, merges >>

NextAll ==
    \/ AllNoFiles
    \/ AllEnterLoop
    \/ AllCompileAndExtract
    \/ AllLoopSuccess
    \/ AllLoopFailure
    \/ AllNoneCompiled
    \/ AllReportJson
    \/ AllReportShowAsm
    \/ AllReportTable
    \/ AllWarn
    \/ AllReturn

SpecAll == InitAll /\ [][NextAll]_vars

---------------------------------------------------------------------------
(* The two table renderers on their own. *)

\* print_frequency_table of opcode-freq-all.py on the mapping, called the
\* way main calls it.
TableRenderAll ==
    /\ tool = "table" /\ pc \in {"start", "again"}
    /\ stdout' = stdout
           \o PrintFrequencyTableAll(opcode_counts, SumValues(opcode_counts),
                  1, "OPCODE FREQUENCY TABLE (AGGREGATE)")
    /\ pc' = IF pc = "start" THEN "again" ELSE "done"
    /\ UNCHANGED << tool, show_asm, output_json, files, idx, result, success,
                    opcode_counts, assembly, aggregate_counter, per_file,
                    assembly_parts, file_count, failed, stderr, exit_code,
                    invocations, extracted_from, merges >>

\* print_frequency_table of opcode-freq.py on the mapping.
TableRenderSingle ==
    /\ tool = "table" /\ pc \in {"start", "again"}
    /\ stdout' = stdout
           \o PrintFrequencyTableSingle(opcode_counts,
                  SumValues(opcode_counts), "OPCODE FREQUENCY TABLE")
    /\ pc' = IF pc = "start" THEN "again" ELSE "done"
    /\ UNCHANGED << tool, show_asm, output_json, files, idx, result, success,
                    opcode_counts, assembly, aggregate_counter, per_file,
                    assembly_parts, file_count, failed, stderr, exit_code,
                    invocations, extracted_from, merges >>

NextTable == TableRenderAll \/ TableRenderSingle

SpecTable == InitTable /\ [][NextTable]_vars

---------------------------------------------------------------------------
(* Both tools together. *)

Init == InitAll \/ InitSingle

Next == NextAll \/ NextSingle

Spec == Init /\ [][Next]_vars

---------------------------------------------------------------------------
(* What the properties below are stated with. *)

\* The calls of the compiler made by compile_and_extract, in order.
ExtractCalls == SelectSeq(invocations, LAMBDA v : v.site = "compile_and_extract")

NumSucceeded == Cardinality({i \in DOMAIN ExtractCalls : ExtractCalls[i].returncode = 0})
NumFailed == Cardinality({i \in DOMAIN ExtractCalls : ExtractCalls[i].returncode # 0})

SucceededFiles ==
    {ExtractCalls[i].filepath : i \in {j \in DOMAIN ExtractCalls :
                                          ExtractCalls[j].returncode = 0}}

LoopFinished == tool = "all" /\ pc \in {"after", "warn", "done"}

\* A report (table or JSON object) is on stdout.
ReportRendered == \E i \in DOMAIN stdout : stdout[i].line \in {"json", "total"}

ValueOrZero(m, k) == IF k \in DOMAIN m THEN m[k] ELSE 0

\* The sum of m[k] over the keys k in S.
RECURSIVE SumOfValues(_, _)
SumOfValues(m, S) ==
    IF S = {} THEN 0
    ELSE LET k == CHOOSE x \in S : TRUE
         IN  m[k] + SumOfValues(m, S \ {k})

\* The sum over the files f in S of perfile[f].get(op, 0).
RECURSIVE SumOverFiles(_, _, _)
SumOverFiles(perfile, S, op) ==
    IF S = {} THEN 0
    ELSE LET f == CHOOSE x \in S : TRUE
         IN  ValueOrZero(perfile[f], op) + SumOverFiles(perfile, S \ {f}, op)

---------------------------------------------------------------------------
(* C1 *)

\* C1: in every JSON report of opcode-freq-all.py, aggregate[op] is the sum
\* over the files of per_file of per_file[f].get(op, 0) for every opcode op,
\* the keys of per_file are exactly the files whose invocation succeeded,
\* and total_opcodes is the sum of the values of aggregate.
C1_AggregateIsSumOfPerFile ==
    \A i \in DOMAIN stdout :
        stdout[i].line = "json" =>
            LET J == stdout[i]
                ops == DOMAIN J.aggregate
                       \cup UNION {DOMAIN J.per_file[f] : f \in DOMAIN J.per_file}
            IN  /\ \A op \in ops :
                       ValueOrZero(J.aggregate, op)
                           = SumOverFiles(J.per_file, DOMAIN J.per_file, op)
                /\ DOMAIN J.per_file = SucceededFiles
                /\ J.total_opcodes = SumOfValues(J.aggregate, DOMAIN J.aggregate)

\* A JSON report over two succeeded files that share an opcode, next to an
\* opcode only one of them has.
C1_Witness ==
    \E i \in DOMAIN stdout :
        /\ stdout[i].line = "json"
        /\ Cardinality(DOMAIN stdout[i].per_file) = 2
        /\ ValueOrZero(stdout[i].aggregate, NameMOVE) = 5
        /\ ValueOrZero(stdout[i].aggregate, NameADD) = 1
        /\ stdout[i].total_opcodes = 6

---------------------------------------------------------------------------
(* C3 *)

\* C3: once the file loop of opcode-freq-all.py is over, file_count is the
\* number of files whose compiler run exited with status 0 (whatever number
\* of opcodes it gave), failed is the number whose run exited non-zero, and
\* the two add up to the number of input files.
C3_CountersFollowExitStatus ==
    LoopFinished =>
        /\ file_count = NumSucceeded
        /\ failed = NumFailed
        /\ file_count + failed = Len(files)

\* The loop is over, one file failed and one succeeded with zero opcodes.
C3_Witness ==
    /\ LoopFinished
    /\ failed = 1
    /\ file_count = 1
    /\ \E f \in DOMAIN per_file : DOMAIN per_file[f] = {}

---------------------------------------------------------------------------
(* C4 *)

C4_AtExit ==
    (tool = "all" /\ pc = "done") =>
        /\ (exit_code # 0) <=> (files = << >> \/ NumSucceeded = 0)
        /\ (exit_code # 0) => ~ReportRendered
        /\ (exit_code = 0) =>
               /\ ReportRendered
               /\ stderr = IF NumFailed > 0
                           THEN << [line |-> "warning", failed |-> NumFailed] >>
                           ELSE << >>

C4_WarningStep ==
    (tool = "all" /\ stderr' # stderr) => (ReportRendered /\ stdout' = stdout)

\* C4: a run of opcode-freq-all.py ends with a non-zero status and without a
\* report exactly when there is no input file or no file compiled; every other
\* run ends with status 0 and a report, and in such a run the diagnostic
\* stream holds the one warning with the failed-file count if and only if a
\* file failed; the warning is written once the report is on stdout and
\* leaves stdout as it is.
C4_ExitStatusAndWarning == []C4_AtExit /\ [][C4_WarningStep]_vars

\* A run that ended with status 0, a report and the warning about one file.
C4_Witness ==
    /\ tool = "all" /\ pc = "done"
    /\ exit_code = 0
    /\ ReportRendered
    /\ stderr = << [line |-> "warning", failed |-> 1] >>

---------------------------------------------------------------------------
(* C7 *)

\* C7: in a run of opcode-freq-all.py the compiler is invoked exactly once
\* per input file, in the order of files, and the counts of each succeeded
\* file are merged into the aggregate exactly once.
C7_OneInvocationPerFile ==
    LoopFinished =>
        /\ [i \in DOMAIN invocations |-> invocations[i].filepath] = files
        /\ \A i, j \in DOMAIN merges : merges[i] = merges[j] => i = j
        /\ {merges[i] : i \in DOMAIN merges} = SucceededFiles

---------------------------------------------------------------------------
(* C8 *)

\* The delimiter and the counted text of each succeeded file, in the order
\* of files.
RECURSIVE CountedAssembly(_)
CountedAssembly(i) ==
    IF i > Len(files) THEN << >>
    ELSE (IF files[i] \in SucceededFiles
          THEN Delimiter(files[i]) \o extracted_from[files[i]]
          ELSE << >>) \o CountedAssembly(i + 1)

\* C8: with --show-asm the text printed before the table is, for each
\* succeeded file in the order of files and for no failed file, the delimiter
\* line of the file followed by the text its counts were extracted from.
C8_ShownTextIsCountedText ==
    \A i \in DOMAIN stdout :
        (tool = "all" /\ stdout[i].line = "asm") =>
            stdout[i].text = CountedAssembly(1)

---------------------------------------------------------------------------
(* C5 *)

\* The row lines of the tables printed on stdout, one sequence per table
\* (a table starts at its title line).
TitleLines == {i \in DOMAIN stdout : stdout[i].line = "title"}

TableAt(i) ==
    LET later == {j \in TitleLines : j > i}
        last == IF later = {} THEN Len(stdout)
                ELSE (CHOOSE j \in later : \A k \in later : j <= k) - 1
    IN  SelectSeq(SubSeq(stdout, i, last), LAMBDA l : l.line = "row")

\* a < b on opcode names: a is a proper prefix of b, or the two differ first
\* at a position where a has the smaller code point.
NameBefore(a, b) ==
    LET shorter == IF Len(a) <= Len(b) THEN Len(a) ELSE Len(b)
        same == {k \in 0..shorter : \A j \in 1..k : a[j] = b[j]}
        p == CHOOSE k \in same : \A m \in same : m <= k
    IN  IF p = Len(a) THEN Len(b) > p
        ELSE IF p = Len(b) THEN FALSE
        ELSE Ord(a[p + 1]) < Ord(b[p + 1])

\* names lists every key of the mapping once, by descending count and, for
\* equal counts, by ascending name.
IsRanking(names, mapping) ==
    /\ Len(names) = Cardinality(DOMAIN mapping)
    /\ {names[i] : i \in DOMAIN names} = DOMAIN mapping
    /\ \A i \in 1..(Len(names) - 1) :
           \/ mapping[names[i]] > mapping[names[i + 1]]
           \/ /\ mapping[names[i]] = mapping[names[i + 1]]
              /\ NameBefore(names[i], names[i + 1])

\* C5: each table printed by either renderer lists the opcodes of the mapping
\* by descending count, ties by ascending name; the rows carry the counts of
\* the mapping; no other arrangement of the keys has that order; and two
\* renderings of the same mapping list the same sequence.
C5_RankingOrder ==
    tool = "table" =>
        \A i \in TitleLines :
            LET rows == TableAt(i)
                names == [r \in DOMAIN rows |-> rows[r].opcode]
                n == Cardinality(DOMAIN opcode_counts)
            IN  /\ IsRanking(names, opcode_counts)
                /\ \A r \in DOMAIN rows : rows[r].count = opcode_counts[rows[r].opcode]
                /\ \A other \in [1..n -> DOMAIN opcode_counts] :
                       IsRanking(other, opcode_counts) => other = names
                /\ \A j \in TitleLines : TableAt(j) = rows

\* Both renderers have printed a mapping in which two names that share a
\* prefix tie and a third name has a larger count.
C5_Witness ==
    /\ tool = "table" /\ pc = "done"
    /\ Cardinality(TitleLines) = 2
    /\ \E i, j \in TitleLines : stdout[i + 1].width # stdout[j + 1].width
    /\ DOMAIN opcode_counts = {NameADD, NameADDK, NameMOVE}
    /\ opcode_counts[NameADD] = 1 /\ opcode_counts[NameADDK] = 1
    /\ opcode_counts[NameMOVE] = 2

---------------------------------------------------------------------------
(* The extraction, as the properties below describe it. *)

\* compile_and_extract of opcode-freq.py has returned from a run of the
\* compiler that exited with status 0.
Extracted == tool = "single" /\ pc # "start" /\ result.returncode = 0

NameLOADK == << "L", "O", "A", "D", "K" >>
NameRETURN == << "R", "E", "T", "U", "R", "N" >>

Blank == {" ", "\t"}
WordChars == Upper \cup Lower \cup Digit \cup {"_"}

Largest(S) == CHOOSE n \in S : \A m \in S : m <= n

\* The lengths n such that the first n characters of the line are "L", one
\* or more digits, ":" and then blanks only.
LabelPrefixLens(line) ==
    {n \in 3..Len(line) :
        /\ line[1] = "L"
        /\ \E d \in 1..(n - 2) :
              /\ \A k \in 2..(d + 1) : line[k] \in Digit
              /\ line[d + 2] = ":"
              /\ \A k \in (d + 3)..n : line[k] \in Blank}

\* The line without its one leading label prefix.
Remainder(line) ==
    IF LabelPrefixLens(line) = {} THEN line
    ELSE SubSeq(line, Largest(LabelPrefixLens(line)) + 1, Len(line))

\* The longest prefix of rest made of uppercase letters, digits and
\* underscores.
LongestOpcodePrefix(rest) ==
    SubSeq(rest, 1, Largest({n \in 0..Len(rest) :
                                \A k \in 1..n : rest[k] \in Upper \cup Digit \cup {"_"}}))

\* The opcode a line stands for when whatever follows the prefix is accepted
\* (the empty name: none).
OpcodeAnyTail(line) ==
    LET rest == Remainder(line)
    IN  IF rest # << >> /\ rest[1] \in Upper THEN LongestOpcodePrefix(rest)
        ELSE << >>

\* The opcode a line stands for when the prefix must end the line or be
\* followed by a character that is no letter, digit or underscore.
OpcodeWholeWord(line) ==
    LET name == OpcodeAnyTail(line)
        rest == Remainder(line)
    IN  IF name # << >> /\ (Len(rest) = Len(name) \/ rest[Len(name) + 1] \notin WordChars)
        THEN name
        ELSE << >>

\* For each opcode some line stands for, with any tail accepted, the number
\* of lines that do.
CountsAnyTail(lines) ==
    [op \in {OpcodeAnyTail(lines[i]) : i \in DOMAIN lines} \ {<< >>} |->
        Cardinality({i \in DOMAIN lines : OpcodeAnyTail(lines[i]) = op})]

\* The same for whole words only.
CountsWholeWord(lines) ==
    [op \in {OpcodeWholeWord(lines[i]) : i \in DOMAIN lines} \ {<< >>} |->
        Cardinality({i \in DOMAIN lines : OpcodeWholeWord(lines[i]) = op})]

---------------------------------------------------------------------------
(* C10 *)

\* C10 as stated: the extracted counts are those of the reference that strips
\* one leading label prefix, skips an empty remainder and counts the longest
\* prefix of uppercase letters, digits and underscores of a remainder that
\* starts with an uppercase letter, whatever follows that prefix.
C10_CountsAnyTail ==
    Extracted => opcode_counts = CountsAnyTail(SplitLines(assembly))

\* C10, amended: as above, but a line counts only if that prefix ends the line
\* or is followed by a character that is no letter, digit or underscore; the
\* keys are exactly the opcodes counted at least once.
C10_CountsWholeWord ==
    Extracted =>
        /\ opcode_counts = CountsWholeWord(SplitLines(assembly))
        /\ \A op \in DOMAIN opcode_counts : opcode_counts[op] >= 1

\* A text was extracted in which one line counts and another has an
\* uppercase prefix followed by a lowercase letter.
C10_Witness ==
    /\ Extracted
    /\ \E i, j \in DOMAIN SplitLines(assembly) :
          LET li == SplitLines(assembly)[i]
              lj == SplitLines(assembly)[j]
          IN  /\ OpcodeWholeWord(li) # << >>
              /\ OpcodeAnyTail(lj) # << >> /\ OpcodeWholeWord(lj) = << >>

---------------------------------------------------------------------------
(* C2 *)

\* C2 as stated: the three-line scenario text, whose second line is indented,
\* gives {LOADK:1, ADD:1, RETURN:1}.
C2_IndentedLineCounts ==
    (Extracted /\ result.stdout = TextScenario) =>
        opcode_counts = (NameLOADK :> 1 @@ NameADD :> 1 @@ NameRETURN :> 1)

\* C2, amended: the scenario text gives {LOADK:1, RETURN:1}, its indented
\* line contributes nothing; the same three lines without the indentation
\* give {LOADK:1, ADD:1, RETURN:1}.
C2_ScenarioCounts ==
    /\ (Extracted /\ result.stdout = TextScenario) =>
           opcode_counts = (NameLOADK :> 1 @@ NameRETURN :> 1)
    /\ (Extracted /\ result.stdout = TextFlush) =>
           opcode_counts = (NameLOADK :> 1 @@ NameADD :> 1 @@ NameRETURN :> 1)

\* The scenario text has been extracted and reported.
C2_Witness ==
    /\ Extracted /\ pc = "done"
    /\ result.stdout = TextScenario
    /\ ReportRendered

---------------------------------------------------------------------------
(* C6 *)

\* The characters of the line at position p are "L", one or more digits, ":".
LabelAt(line, p) ==
    /\ p <= Len(line) /\ line[p] = "L"
    /\ \E d \in 1..(Len(line) - p) :
          /\ \A k \in (p + 1)..(p + d) : line[k] \in Digit
          /\ p + d + 1 <= Len(line) /\ line[p + d + 1] = ":"

\* The opcodes one line adds to the counts.
KeysOfLine(line) == DOMAIN ExtractLine(EmptyCounter, line)

\* Where the remainder of the line starts.
RemainderStart(line) == Len(line) - Len(Remainder(line)) + 1

\* key is read at position p of the line.
ReadAt(line, p, key) ==
    p + Len(key) - 1 <= Len(line) /\ SubSeq(line, p, p + Len(key) - 1) = key

\* key is a label there: "L" and digits, followed at once by ":".
IsLabelAt(line, p, key) ==
    /\ ReadAt(line, p, key)
    /\ LabelAt(line, p)
    /\ p + Len(key) <= Len(line) /\ line[p + Len(key)] = ":"

\* C6 as stated: no line, whatever number of label prefixes it carries, adds
\* a key that is a label followed by ":" in that line, and the line
\* "L42:   LOADK R0 K3" counts LOADK once.
C6_NoLabelKey ==
    Extracted =>
        /\ \A i \in DOMAIN SplitLines(assembly) :
               LET line == SplitLines(assembly)[i]
               IN  \A key \in KeysOfLine(line) :
                       /\ ReadAt(line, RemainderStart(line), key)
                       /\ ~IsLabelAt(line, RemainderStart(line), key)
        /\ result.stdout = TextLabelled => opcode_counts = (NameLOADK :> 1)

\* C6, amended: the key of a line is read after its leading label prefix,
\* never from it; a line with at most one label prefix adds no key that is a
\* label followed by ":"; a line with two label prefixes adds its second
\* label as a key; and the line "L42:   LOADK R0 K3" counts LOADK once.
C6_LeadingLabelNeverCounted ==
    Extracted =>
        /\ \A i \in DOMAIN SplitLines(assembly) :
               LET line == SplitLines(assembly)[i]
                   p == RemainderStart(line)
               IN  /\ \A key \in KeysOfLine(line) :
                          /\ ReadAt(line, p, key)
                          /\ ~LabelAt(line, p) => ~IsLabelAt(line, p, key)
                   /\ (p > 1 /\ LabelAt(line, p)) =>
                          \E key \in KeysOfLine(line) : IsLabelAt(line, p, key)
        /\ result.stdout = TextLabelled => opcode_counts = (NameLOADK :> 1)

\* A labelled line has been extracted and its instruction counted.
C6_Witness ==
    /\ Extracted
    /\ \E i \in DOMAIN SplitLines(assembly) :
          LET line == SplitLines(assembly)[i]
          IN  /\ LabelAt(line, 1)
              /\ RemainderStart(line) > 1
              /\ KeysOfLine(line) # {}
              /\ ~LabelAt(line, RemainderStart(line))

---------------------------------------------------------------------------
(* C9 *)

\* The run is over, at least one compiler run exited with status 0, and no
\* line of the text of any succeeded file stands for an opcode.
ZeroOpcodeRun ==
    /\ pc = "done"
    /\ NumSucceeded >= 1
    /\ \A f \in SucceededFiles :
           \A i \in DOMAIN SplitLines(extracted_from[f]) :
               OpcodeWholeWord(SplitLines(extracted_from[f])[i]) = << >>

\* The report on stdout shows a total of 0 and no percentage other than 0.0.
ReportOfTotalZero ==
    /\ ReportRendered
    /\ \A i \in DOMAIN stdout :
           /\ stdout[i].line = "total" => stdout[i].total = 0
           /\ stdout[i].line = "json" => stdout[i].total_opcodes = 0
           /\ stdout[i].line = "row" => stdout[i].pct = 0

\* C9 as stated: in either tool such a run renders its report with total 0
\* and exits with status 0.
C9_ZeroOpcodesNeverFatal ==
    ZeroOpcodeRun => (exit_code = 0 /\ ReportOfTotalZero)

\* C9, amended: opcode-freq-all.py renders its report with total 0 and exits
\* with status 0; opcode-freq.py prints "No opcodes found (compilation may
\* have failed)", renders no report and exits with status 1.
C9_ZeroOpcodesFatalOnlyInSingle ==
    ZeroOpcodeRun =>
        /\ tool = "all" => (exit_code = 0 /\ ReportOfTotalZero)
        /\ tool = "single" =>
               /\ exit_code = 1
               /\ ~ReportRendered
               /\ stdout[Len(stdout)]
                      = Text("No opcodes found (compilation may have failed)")

\* opcode-freq-all.py has finished a run in which one file failed and the
\* other compiled to a text without any opcode.
C9_Witness ==
    /\ tool = "all"
    /\ ZeroOpcodeRun
    /\ failed = 1
    /\ TextNoOpcode \in {extracted_from[f] : f \in DOMAIN extracted_from}

=============================================================================
